---- MODULE Spec2Model ----
(***************************************************************************)
(* Model of the Flipkart review crawl engine of                            *)
(* src/flipkart_review_scraper.py: scrape_flipkart_reviews and the         *)
(* functions it calls (get_review_page_content, extract_reviews_from_page, *)
(* check_has_next_page, get_next_page_url, convert_to_review_url).         *)
(*                                                                         *)
(* A URL is a record of the parts the code looks at; a page is a record of *)
(* the parts of the HTML the code looks at.  The web site is the           *)
(* environment: at every fetch it answers with an exception or with one of *)
(* the pages of Pages.                                                     *)
(***************************************************************************)
EXTENDS Integers, Sequences, FiniteSets, TLC

(* ------------------------------ bounds -------------------------------- *)
\* the largest max_pages argument tried
MaxPagesArg == 2
\* the largest start_page argument tried
MaxStartPage == 2
\* cap on the number of driver.get calls of one crawl (the loop of the
\* code is unbounded when max_pages is None or 0)
MaxFetches == 3

(* ------------------------------ values -------------------------------- *)
\* Python's None, where a number or a string is expected
None == "None"

\* max_pages = None (the default of line 467), among the numbers
NoLimit == -1

\* truth value of the max_pages argument (line 553: "if max_pages and ...")
Truthy(n) == n # NoLimit /\ n # 0

(* ------------------------------- strings ------------------------------- *)
\* A Python str is a sequence of one-character strings.
Min(a, b) == IF a < b THEN a ELSE b

\* s[i-1:].startswith(w), i counted from 1
StartsWithAt(s, i, w) ==
  /\ i + Len(w) - 1 <= Len(s)
  /\ \A k \in 1..Len(w) : s[i + k - 1] = w[k]

\* the positions (from 1) at which w occurs in s
Occurrences(s, w) == { i \in 1..(Len(s) - Len(w) + 1) : StartsWithAt(s, i, w) }

\* w in s
Contains(s, w) == Occurrences(s, w) # {}

\* s.endswith(w)
EndsWith(s, w) == Len(w) <= Len(s) /\ StartsWithAt(s, Len(s) - Len(w) + 1, w)

\* s.find(w): the first position counted from 0, -1 when there is none
Find(s, w) ==
  IF Contains(s, w)
    THEN (CHOOSE i \in Occurrences(s, w) : \A j \in Occurrences(s, w) : i <= j) - 1
    ELSE -1

\* s[a:b] for 0 <= a
Slice(s, a, b) == SubSeq(s, Min(a, Len(s)) + 1, Min(b, Len(s)))

\* s[a:]
SliceFrom(s, a) == Slice(s, a, Len(s))

\* c.isspace()
IsSpace(c) == c \in {" ", "\n", "\t"}

\* s.lstrip(), s.rstrip(), s.strip()
RECURSIVE LStrip(_)
LStrip(s) == IF s # << >> /\ IsSpace(s[1]) THEN LStrip(Tail(s)) ELSE s

RECURSIVE RStrip(_)
RStrip(s) == IF s # << >> /\ IsSpace(s[Len(s)]) THEN RStrip(SubSeq(s, 1, Len(s) - 1)) ELSE s

Strip(s) == RStrip(LStrip(s))

\* c.isdigit(): the decimal digits and, as Python has it, characters such
\* as the superscript two, written "sup2" here
DecimalDigits == {"0", "1", "2", "3", "4", "5", "6", "7", "8", "9"}
IsDigit(c) == c \in DecimalDigits \cup {"sup2"}

UpperLetters == <<"A", "B", "C", "D", "E", "F", "G", "H", "I", "J", "K", "L", "M", "N", "O", "P", "Q", "R", "S", "T", "U", "V", "W", "X", "Y", "Z">>
LowerLetters == <<"a", "b", "c", "d", "e", "f", "g", "h", "i", "j", "k", "l", "m", "n", "o", "p", "q", "r", "s", "t", "u", "v", "w", "x", "y", "z">>

\* c.lower()
LowerChar(c) ==
  IF \E k \in 1..Len(UpperLetters) : UpperLetters[k] = c
    THEN LowerLetters[CHOOSE k \in 1..Len(UpperLetters) : UpperLetters[k] = c]
    ELSE c

\* s.lower()
Lower(s) == [k \in 1..Len(s) |-> LowerChar(s[k])]

\* the character class [A-Z0-9] of the pid and lid patterns
IsUpperAlnum(c) == c \in DecimalDigits \/ \E k \in 1..Len(UpperLetters) : UpperLetters[k] = c

\* the longest prefix of s in [A-Z0-9]*: what ([A-Z0-9]+) captures at s
RECURSIVE UpperAlnumPrefix(_)
UpperAlnumPrefix(s) ==
  IF s # << >> /\ IsUpperAlnum(s[1]) THEN <<s[1]>> \o UpperAlnumPrefix(Tail(s)) ELSE << >>

\* s.split(c)
RECURSIVE Split(_, _)
Split(s, c) ==
  IF \E k \in 1..Len(s) : s[k] = c
    THEN LET k == CHOOSE k \in 1..Len(s) : s[k] = c /\ \A m \in 1..(k - 1) : s[m] # c
         IN  <<SubSeq(s, 1, k - 1)>> \o Split(SubSeq(s, k + 1, Len(s)), c)
    ELSE <<s>>

\* sep.join(parts)
RECURSIVE Join(_, _)
Join(parts, sep) ==
  IF parts = << >> THEN << >>
  ELSE IF Len(parts) = 1 THEN parts[1]
  ELSE parts[1] \o sep \o Join(Tail(parts), sep)

\* s.replace(w, "", 1)
RemoveFirst(s, w) ==
  IF Contains(s, w)
    THEN Slice(s, 0, Find(s, w)) \o SliceFrom(s, Find(s, w) + Len(w))
    ELSE s

\* str(n) for n >= 0
DigitChar(d) == <<"0", "1", "2", "3", "4", "5", "6", "7", "8", "9">>[d + 1]
RECURSIVE StrOfNat(_)
StrOfNat(n) == IF n < 10 THEN <<DigitChar(n)>> ELSE StrOfNat(n \div 10) \o <<DigitChar(n % 10)>>

(* -------------------------------- URLs --------------------------------- *)
s_flipkart_com == <<"f", "l", "i", "p", "k", "a", "r", "t", ".", "c", "o", "m">>
s_www_flipkart_com == <<"w", "w", "w", ".", "f", "l", "i", "p", "k", "a", "r", "t", ".", "c", "o", "m">>
s_www_amazon_in == <<"w", "w", "w", ".", "a", "m", "a", "z", "o", "n", ".", "i", "n">>
s_reviews_example_org == <<"r", "e", "v", "i", "e", "w", "s", ".", "e", "x", "a", "m", "p", "l", "e", ".", "o", "r", "g">>
s_FLIPKART == <<"F", "L", "I", "P", "K", "A", "R", "T">>
s_ABC1 == <<"A", "B", "C", "1">>
s_ABc1 == <<"A", "B", "c", "1">>
s_L1 == <<"L", "1">>

\* one name=value pair of a query string; value << >> for "name="
Param(n, v) == [name |-> n, value |-> v]

\* a URL  https://<host>/<name>/<path>/<item>?<query> : the host, the path
\* segment that tells a review feed ("product-reviews") from a product page
\* ("p"), the item segment ("" when absent) and the query parameters in
\* their order
Url(h, p, item, q) == [host |-> h, path |-> p, item |-> item, query |-> q]

\* Python's None where a URL is expected (get_next_page_url line 411,
\* convert_to_review_url lines 438 and 447)
NoUrl == [host |-> << >>, path |-> "None", item |-> "", query |-> << >>]

\* the start_url arguments tried
StartUrls ==
  { Url(s_www_flipkart_com, "product-reviews", "itm1", <<Param("pid", s_ABC1)>>),
    Url(s_www_flipkart_com, "p", "itm1", <<Param("pid", s_ABC1), Param("lid", s_L1)>>),
    Url(s_www_flipkart_com, "p", "", <<Param("pid", s_ABc1)>>),
    Url(s_www_flipkart_com, "p", "itm1", << >>),
    Url(s_www_flipkart_com, "product-reviews", "itm1",
        <<Param("pid", s_ABC1), Param("page", <<"2">>), Param("x", <<"1">>)>>),
    Url(s_www_flipkart_com, "product-reviews", "itm1",
        <<Param("sort", << >>), Param("pid", s_ABC1)>>),
    Url(s_www_amazon_in, "product-reviews", "itm1", <<Param("pid", s_ABC1)>>),
    Url(s_reviews_example_org, "product-reviews", "itm1",
        <<Param("pid", s_ABC1), Param("ref", s_flipkart_com)>>) }

\* "flipkart.com" in url  (line 486): a substring test on the whole URL
ContainsFlipkart(url) ==
  \/ Contains(url.host, s_flipkart_com)
  \/ \E k \in 1..Len(url.query) : Contains(url.query[k].value, s_flipkart_com)

\* "product-reviews" in url  (lines 432, 492)
ContainsProductReviews(url) == url.path = "product-reviews"

\* re.search(r'<name>=([A-Z0-9]+)', url) for name pid or lid: the capture at
\* the first parameter of that name whose value starts with such a
\* character, << >> when the pattern does not match
CaptureUpper(url, n) ==
  LET hits == { k \in 1..Len(url.query) :
                  url.query[k].name = n /\ UpperAlnumPrefix(url.query[k].value) # << >> }
  IN  IF hits = {} THEN << >>
      ELSE UpperAlnumPrefix(url.query[CHOOSE k \in hits : \A m \in hits : k <= m].value)

\* lines 429-465: None unless the URL has the product path
\* flipkart.com/<name>/p/ and a pid; the review URL keeps scheme and host
\* and carries the captured pid, the captured lid when there is an item id
\* too, and marketplace=FLIPKART
convert_to_review_url(product_url) ==
  IF ContainsProductReviews(product_url) THEN product_url
  ELSE IF ~(EndsWith(product_url.host, s_flipkart_com) /\ product_url.path = "p") THEN NoUrl
  ELSE IF CaptureUpper(product_url, "pid") = << >> THEN NoUrl
  ELSE IF CaptureUpper(product_url, "lid") # << >> /\ product_url.item # ""
    THEN Url(product_url.host, "product-reviews", product_url.item,
             <<Param("pid", CaptureUpper(product_url, "pid")),
               Param("lid", CaptureUpper(product_url, "lid")),
               Param("marketplace", s_FLIPKART)>>)
    ELSE Url(product_url.host, "product-reviews", "itm",
             <<Param("pid", CaptureUpper(product_url, "pid")),
               Param("marketplace", s_FLIPKART)>>)

\* the names of the query q in the order of their first occurrence, the
\* pairs with an empty value left out (parse_qs drops them)
RECURSIVE KeysOf(_)
KeysOf(q) ==
  IF q = << >> THEN << >>
  ELSE LET init == KeysOf(SubSeq(q, 1, Len(q) - 1))
           last == q[Len(q)]
       IN  IF last.value = << >> \/ \E k \in 1..Len(init) : init[k] = last.name
             THEN init ELSE Append(init, last.name)

\* the values of name n in q, in order, empty values left out
RECURSIVE ValuesOf(_, _)
ValuesOf(q, n) ==
  IF q = << >> THEN << >>
  ELSE IF q[1].name = n /\ q[1].value # << >>
    THEN <<q[1].value>> \o ValuesOf(Tail(q), n)
    ELSE ValuesOf(Tail(q), n)

\* parse_qs(query): the dict, as the sequence of its items
parse_qs(q) == [k \in 1..Len(KeysOf(q)) |->
                  [name |-> KeysOf(q)[k], values |-> ValuesOf(q, KeysOf(q)[k])]]

\* query_params['page'] = [str(n)]: an existing key keeps its place, a new
\* key goes to the end
SetPageItem(items, n) ==
  IF \E k \in 1..Len(items) : items[k].name = "page"
    THEN [k \in 1..Len(items) |->
            IF items[k].name = "page" THEN [name |-> "page", values |-> <<StrOfNat(n)>>]
            ELSE items[k]]
    ELSE Append(items, [name |-> "page", values |-> <<StrOfNat(n)>>])

\* urlencode(query_params, doseq=True): one pair per value, key by key
RECURSIVE urlencode(_)
urlencode(items) ==
  IF items = << >> THEN << >>
  ELSE [k \in 1..Len(items[1].values) |-> Param(items[1].name, items[1].values[k])]
       \o urlencode(Tail(items))

\* lines 414-424 and 509-513: the URL with its query parsed, the page
\* parameter set to n, and the query written again
WithPage(url, n) == [url EXCEPT !.query = urlencode(SetPageItem(parse_qs(url.query), n))]

\* lines 508-513: the page parameter is set only when start_page > 1
WithStartPage(url, start_page) ==
  IF start_page > 1 THEN WithPage(url, start_page) ELSE url

(* ------------------------------- pages -------------------------------- *)
s_Certified_Buyer == <<"C", "e", "r", "t", "i", "f", "i", "e", "d", " ", "B", "u", "y", "e", "r">>

\* the text of a review container: the leading rating digit (<< >> when
\* absent), the rest of the text, and "Certified Buyer" at the end or not
Frag(digit, cert, body) == digit \o body \o (IF cert THEN s_Certified_Buyer ELSE << >>)

\* the link of an <a> element: href "" when there is no href attribute;
\* a relative href names a path on the current host, an absolute one a URL
NoLink == [present |-> FALSE, relative |-> FALSE, target |-> NoUrl]
Link(rel, target) == [present |-> TRUE, relative |-> rel, target |-> target]

\* the parts of a page source the code reads
Page(denied, first, notfound, elems, loose, pageOfDiv, pageOfText, button, buttonNext, nextText, nextLink, navLinks) ==
  [ access_denied |-> denied,          \* "Access Denied" / "automated access"
    be_the_first |-> first,            \* "Be the first to Review this product"
    page_not_found |-> notfound,       \* "Page Not Found" / "... does not exist"
    review_elements |-> elems,         \* div.EKFha-
    cPHDOP_elements |-> loose,         \* div.cPHDOP.col-12-12
    page_of_div |-> pageOfDiv,         \* <<X, Y>> of the first div with "Page" and "of", or << >>
    page_of_text |-> pageOfText,       \* <<X, Y>> of the first text "Page X of Y", or << >>
    next_button |-> button,            \* a._1LKTO3
    next_button_says_next |-> buttonNext,
    next_text |-> nextText,            \* some text node contains "Next"
    next_link |-> nextLink,            \* first <a> whose text contains "Next", with href
    nav_links |-> navLinks,            \* number of <a> inside <nav>
    pager_current_not_last |-> FALSE,  \* div._2MImiq: the span of the current page is not the last span
    page_words_first |-> FALSE ]       \* a text with "Page" and "of" that is no "Page X of Y" comes first

\* the page with a div._2MImiq whose current page span is not the last one
WithPager(page) == [page EXCEPT !.pager_current_not_last = TRUE]

\* the page with a text such as "Page quality of the book" before the marker
WithPageWords(page) == [page EXCEPT !.page_words_first = TRUE]

F1 == Frag(<<"5">>, TRUE, <<"a">>)
F2 == Frag(<<"4">>, FALSE, <<"b">>)
F3 == Frag(<< >>, TRUE, <<"c">>)

RevUrl(pg) ==
  Url(s_www_flipkart_com, "product-reviews", "itm1",
      <<Param("pid", s_ABC1), Param("page", StrOfNat(pg))>>)

\* the pages the site may answer with
Pages ==
  { \* reviews, "Next" link with a relative href to page 2
    Page(FALSE, FALSE, FALSE, <<F1, F2, F3>>, << >>, << >>, << >>, NoLink, FALSE,
         TRUE, Link(TRUE, RevUrl(2)), 0),
    \* reviews, a next button without the word "Next", absolute href to
    \* page 3, and a pager with two links
    Page(FALSE, FALSE, FALSE, <<F3>>, << >>, << >>, << >>, Link(FALSE, RevUrl(3)), FALSE,
         FALSE, NoLink, 2),
    \* reviews, "Next" link with an absolute href to another site
    Page(FALSE, FALSE, FALSE, <<F2>>, << >>, << >>, << >>, NoLink, FALSE,
         TRUE, Link(FALSE, Url(s_www_amazon_in, "product-reviews", "itm1", <<Param("page", <<"2">>)>>)), 0),
    \* reviews, "Next" text but no link, no page marker: mechanical advance
    Page(FALSE, FALSE, FALSE, <<F2>>, << >>, << >>, << >>, NoLink, FALSE,
         TRUE, NoLink, 0),
    \* reviews, "Next" text, "Page 1 of 1" outside a div: no next URL
    Page(FALSE, FALSE, FALSE, <<F1>>, << >>, << >>, <<1, 1>>, NoLink, FALSE,
         TRUE, NoLink, 0),
    \* reviews, last page "Page 2 of 2" in a div
    Page(FALSE, FALSE, FALSE, <<F1>>, << >>, <<2, 2>>, <<2, 2>>, NoLink, FALSE,
         FALSE, NoLink, 0),
    \* no review container at all, but a pager with two links
    Page(FALSE, FALSE, FALSE, << >>, << >>, << >>, << >>, NoLink, FALSE,
         FALSE, NoLink, 2),
    \* only loose containers, one with "Certified Buyer"; "Page 1 of 3" div
    Page(FALSE, FALSE, FALSE, << >>, <<F3, F2>>, <<1, 3>>, <<1, 3>>, NoLink, FALSE,
         FALSE, NoLink, 0),
    \* blocked page that also shows reviews
    Page(TRUE, FALSE, FALSE, <<F1>>, << >>, << >>, << >>, NoLink, FALSE,
         TRUE, NoLink, 0),
    \* product without reviews
    Page(FALSE, TRUE, FALSE, << >>, << >>, << >>, << >>, NoLink, FALSE,
         FALSE, NoLink, 0),
    \* blocked page that also has the no-reviews and the not-found text
    Page(TRUE, TRUE, TRUE, << >>, << >>, << >>, << >>, NoLink, FALSE,
         FALSE, NoLink, 0),
    \* no-reviews page that also has the not-found text
    Page(FALSE, TRUE, TRUE, << >>, << >>, << >>, << >>, NoLink, FALSE,
         FALSE, NoLink, 0),
    \* page not found
    Page(FALSE, FALSE, TRUE, << >>, << >>, << >>, << >>, NoLink, FALSE,
         FALSE, NoLink, 0) }

(* ------------------------- get_review_page_content --------------------- *)
ErrDenied == "Access denied. Flipkart is blocking automated access."
ErrNoReviews == "No reviews found for this product."
ErrNotFound == "Page not found. The URL may be invalid or the product might not exist."
ErrAccess == "Error accessing review page"

\* PageError with the checks of lines 86-96 in the opposite order
PageErrorNotFoundFirst(page_source) ==
  IF page_source.page_not_found THEN ErrNotFound
  ELSE IF page_source.be_the_first THEN ErrNoReviews
  ELSE IF page_source.access_denied THEN ErrDenied
  ELSE None

\* PageError without the "page not found" check of lines 94-96
PageErrorIgnoresNotFound(page_source) ==
  IF page_source.access_denied THEN ErrDenied
  ELSE IF page_source.be_the_first THEN ErrNoReviews
  ELSE None

\* lines 86-96: the error of a loaded page, None when it is a normal page
PageError(page_source) ==
  IF page_source.access_denied THEN ErrDenied
  ELSE IF page_source.be_the_first THEN ErrNoReviews
  ELSE IF page_source.page_not_found THEN ErrNotFound
  ELSE None

(* ------------------------ extract_reviews_from_page -------------------- *)
s_READ_MORE == <<"R", "E", "A", "D", " ", "M", "O", "R", "E">>
s_certified_buyer == <<"c", "e", "r", "t", "i", "f", "i", "e", "d", " ", "b", "u", "y", "e", "r">>
s_No_Title == <<"N", "o", " ", "T", "i", "t", "l", "e">>
s_ellipsis == <<".", ".", ".">>

\* lines 156-158 and 188-190: the title vocabulary, in the order of the code
title_words ==
  << <<"W", "o", "n", "d", "e", "r", "f", "u", "l">>,
     <<"A", "m", "a", "z", "i", "n", "g">>,
     <<"C", "l", "a", "s", "s", "y">>,
     <<"P", "e", "r", "f", "e", "c", "t">>,
     <<"F", "a", "b", "u", "l", "o", "u", "s">>,
     <<"E", "x", "c", "e", "l", "l", "e", "n", "t">>,
     <<"V", "e", "r", "y", " ", "G", "o", "o", "d">>,
     <<"G", "o", "o", "d">>,
     <<"P", "r", "e", "t", "t", "y", " ", "g", "o", "o", "d">>,
     <<"M", "i", "n", "d", "-", "b", "l", "o", "w", "i", "n", "g">>,
     <<"W", "o", "r", "t", "h", " ", "t", "h", "e", " ", "m", "o", "n", "e", "y">>,
     <<"T", "e", "r", "r", "i", "f", "i", "c">>,
     <<"J", "u", "s", "t", " ", "a", "v", "e", "r", "a", "g", "e">>,
     <<"F", "a", "i", "r">>,
     <<"N", "o", "t", " ", "r", "e", "c", "o", "m", "m", "e", "n", "d", "e", "d">> >>

\* line 277: the number of characters kept of the text of a loose container
BodyBudget == 200

\* RatingOf that takes the first digit found anywhere in the text
RatingOfAnywhere(text) ==
  IF \E k \in 1..Len(text) : IsDigit(text[k])
    THEN text[CHOOSE k \in 1..Len(text) : IsDigit(text[k]) /\ \A m \in 1..(k - 1) : ~IsDigit(text[m])]
    ELSE "Unknown"

\* lines 141-146, 282-284: the first character when it is a digit, else "Unknown"
RatingOf(text) == IF text # << >> /\ IsDigit(text[1]) THEN text[1] ELSE "Unknown"

\* lines 161-165: the first word of title_words, from position k on, that
\* review_text[1:] starts with; 0 when there is none
RECURSIVE FirstPrefixWord(_, _)
FirstPrefixWord(review_text, k) ==
  IF k > Len(title_words) THEN 0
  ELSE IF StartsWithAt(review_text, 2, title_words[k]) THEN k
  ELSE FirstPrefixWord(review_text, k + 1)

\* lines 193-197: the first word of title_words, from position k on, that
\* occurs anywhere in first_line; 0 when there is none
RECURSIVE FirstContainedWord(_, _)
FirstContainedWord(first_line, k) ==
  IF k > Len(title_words) THEN 0
  ELSE IF Contains(first_line, title_words[k]) THEN k
  ELSE FirstContainedWord(first_line, k + 1)

\* lines 150-152: "if title_end:" holds when "READ MORE" occurs, and not at
\* position 0
HasTitleEnd(review_text) == Contains(review_text, s_READ_MORE) /\ Find(review_text, s_READ_MORE) # 0

\* lines 152-174: title and text of a review with "READ MORE"
TitleAndTextReadMore(review_text) ==
  LET title_end == Find(review_text, s_READ_MORE)
      k == FirstPrefixWord(review_text, 1)
  IN  IF k # 0
        THEN [title |-> title_words[k],
              text |-> Strip(Slice(review_text, 1 + Len(title_words[k]), title_end))]
        ELSE [title |-> s_No_Title, text |-> Strip(Slice(review_text, 1, title_end))]

\* lines 180-213: title and text of a review without "READ MORE"
TitleAndTextNoMarker(review_text) ==
  LET lines == Split(review_text, "\n")
  IN  IF Len(lines) > 1
        THEN IF lines[1] # << >> /\ IsDigit(lines[1][1])
               THEN LET first_line == Strip(SliceFrom(lines[1], 1))
                        k == FirstContainedWord(first_line, 1)
                        rest == IF k # 0 THEN Strip(RemoveFirst(first_line, title_words[k]))
                                ELSE first_line
                    IN  [title |-> IF k # 0 THEN title_words[k] ELSE s_No_Title,
                         text |-> IF rest # << >> THEN rest ELSE Join(Tail(lines), <<" ">>)]
               ELSE [title |-> s_No_Title, text |-> review_text]
        ELSE [title |-> s_No_Title,
              text |-> IF review_text # << >> /\ IsDigit(review_text[1])
                         THEN SliceFrom(review_text, 1) ELSE review_text]

\* VerifiedPurchase that looks for "Certified Buyer" as written, as line 279 does
VerifiedPurchaseExactCase(review_text) == Contains(review_text, s_Certified_Buyer)

\* lines 215-217: "certified buyer" in the lower-cased text
VerifiedPurchase(review_text) == Contains(Lower(review_text), s_certified_buyer)

\* lines 132-248: the record of one div.EKFha- element with text element_text
\* (the reviewer name of lines 221-237 is not part of the record here)
PrimaryRecord(element_text) ==
  LET review_text == Strip(element_text)
      tt == IF HasTitleEnd(review_text) THEN TitleAndTextReadMore(review_text)
            ELSE TitleAndTextNoMarker(review_text)
  IN  [ rating |-> RatingOf(review_text),
        title |-> tt.title,
        text |-> tt.text,
        verified_purchase |-> VerifiedPurchase(review_text),
        date |-> "Unknown Date", helpful_votes |-> "0" ]

\* FallbackRecord that cuts a text of BodyBudget characters too
FallbackRecordOffByOne(element_text) ==
  [ rating |-> RatingOf(element_text),
    title |-> s_No_Title,
    text |-> IF Len(element_text) >= BodyBudget
               THEN Slice(element_text, 0, BodyBudget) \o s_ellipsis ELSE element_text,
    verified_purchase |-> Contains(element_text, s_Certified_Buyer),
    date |-> "Unknown Date", helpful_votes |-> "0" ]

\* lines 272-284: the record of one loose container with text element_text
FallbackRecord(element_text) ==
  [ rating |-> RatingOf(element_text),
    title |-> s_No_Title,
    text |-> IF Len(element_text) > BodyBudget
               THEN Slice(element_text, 0, BodyBudget) \o s_ellipsis ELSE element_text,
    verified_purchase |-> Contains(element_text, s_Certified_Buyer),
    date |-> "Unknown Date", helpful_votes |-> "0" ]

\* line 266: only containers whose text holds "Certified Buyer"
IsCertified(element_text) == element_text # << >> /\ Contains(element_text, s_Certified_Buyer)

\* extract_reviews_from_page that reads the loose containers on every page
extract_reviews_from_pageBoth(html_content) ==
  LET kept == SelectSeq(html_content.cPHDOP_elements, IsCertified)
  IN  [i \in 1..Len(html_content.review_elements) |->
         PrimaryRecord(html_content.review_elements[i])]
      \o [i \in 1..Len(kept) |-> FallbackRecord(kept[i])]

\* extract_reviews_from_page that puts each new record in front of the others
extract_reviews_from_pageNewestFirst(html_content) ==
  IF html_content.review_elements # << >>
    THEN [i \in 1..Len(html_content.review_elements) |->
            PrimaryRecord(html_content.review_elements[Len(html_content.review_elements) + 1 - i])]
    ELSE LET kept == SelectSeq(html_content.cPHDOP_elements, IsCertified)
         IN  [i \in 1..Len(kept) |-> FallbackRecord(kept[Len(kept) + 1 - i])]

\* lines 108-296: one record per div.EKFha- element, in document order; the
\* loose containers are read only when there is no div.EKFha- element
extract_reviews_from_page(html_content) ==
  IF html_content.review_elements # << >>
    THEN [i \in 1..Len(html_content.review_elements) |->
            PrimaryRecord(html_content.review_elements[i])]
    ELSE LET kept == SelectSeq(html_content.cPHDOP_elements, IsCertified)
         IN  [i \in 1..Len(kept) |-> FallbackRecord(kept[i])]

(* --------------------------- check_has_next_page ----------------------- *)
\* lines 298-364: the "Page X of Y" div decides when present; otherwise any
\* of the "Next" signals, a pager whose current page is not the last, a
\* <nav> with more than one link, or a loose "Page X of Y" text with X < Y
check_has_next_page(html_content) ==
  IF html_content.page_of_div # << >>
    THEN html_content.page_of_div[1] < html_content.page_of_div[2]
  ELSE IF html_content.next_button.present /\ html_content.next_button_says_next THEN TRUE
  ELSE IF html_content.next_text THEN TRUE
  ELSE IF html_content.pager_current_not_last THEN TRUE
  ELSE IF html_content.nav_links > 1 THEN TRUE
  ELSE IF html_content.page_of_text # << >>
    THEN html_content.page_of_text[1] < html_content.page_of_text[2]
  ELSE FALSE

(* ---------------------------- get_next_page_url ------------------------ *)
\* lines 374-379, 387-392: a relative href is put on the scheme and host of
\* the current URL, any other href is returned as it is
ResolveHref(current_url, link) ==
  IF link.relative THEN [link.target EXCEPT !.host = current_url.host]
  ELSE link.target

\* lines 366-427: the href of the next button, else the href of the first
\* "Next" link, else the current URL with page = current_page + 1, unless a
\* known total page count would be passed
get_next_page_url(current_url, html_content, current_page) ==
  IF html_content.next_button.present
    THEN ResolveHref(current_url, html_content.next_button)
  ELSE IF html_content.next_link.present
    THEN ResolveHref(current_url, html_content.next_link)
  ELSE LET next_page == current_page + 1
           total_pages == IF html_content.page_of_text # << >> /\ ~html_content.page_words_first
                            THEN html_content.page_of_text[2] ELSE 0
       IN  IF total_pages # 0 /\ next_page > total_pages THEN NoUrl
           ELSE WithPage(current_url, next_page)

(* -------------------------- scrape_flipkart_reviews -------------------- *)
VARIABLES
  start_url,          \* argument
  max_pages,          \* argument: NoLimit (None), 0 or a positive number
  start_page,         \* argument
  progress_callback,  \* argument: None or "callback"
  pc,                 \* position in scrape_flipkart_reviews
  current_url, current_page, all_reviews,   \* locals, lines 483, 515, 516
  html_content, error, page_reviews,        \* locals, lines 528, 540
  driver,             \* "none", "open" or "quit"
  quits,              \* number of driver.quit() calls
  raising,            \* an exception is propagating out of the try block
  fetches,            \* log of the driver.get calls: URL and the site's answer
  messages,           \* what progress_callback has been called with
  stop_reason,        \* which return or break statement ended the crawl
  outcome,            \* "running", "returned" or "raised"
  returned,           \* the records of the returned DataFrame
  cancel_requested,   \* the caller has asked the crawl to stop
  unit                \* one call of a page function on its own, and its result

vars == << start_url, max_pages, start_page, progress_callback, pc, current_url,
           current_page, all_reviews, html_content, error, page_reviews, driver,
           quits, raising, fetches, messages, stop_reason, outcome, returned,
           cancel_requested, unit >>

inputs == << start_url, max_pages, start_page, progress_callback >>

\* a page with nothing on it but the given containers, loose "Page X of Y"
\* text and "Next" link
BarePage(elems, loose, pageOfText, nextLink) ==
  Page(FALSE, FALSE, FALSE, elems, loose, << >>, pageOfText, NoLink, FALSE, nextLink.present, nextLink, 0)

\* get_review_page_content has not returned
NoResult == [content |-> [none |-> TRUE], error |-> None, raised |-> FALSE, created |-> 0, quits |-> 0]

\* no call of a page function on its own
NoCall ==
  [ fn |-> "none", html_content |-> BarePage(<< >>, << >>, << >>, NoLink),
    current_url |-> NoUrl, current_page |-> 0, done |-> FALSE,
    reviews_data |-> << >>, next_url |-> NoUrl, has_next |-> FALSE,
    driver_given |-> FALSE, event |-> "", result |-> NoResult ]

\* html_content of line 528 when get_review_page_content returns (None, error)
NoPage == [none |-> TRUE]

\* "if progress_callback: progress_callback(msg)"
Say(log, callback, msg) == IF callback # None THEN Append(log, msg) ELSE log

\* the messages that tell why the crawl ended (lines 488, 500, 533, 549, 555, 562)
StopKinds == { "Error: Not a Flipkart URL",
               "Error: Could not convert product URL to review URL",
               "Stopped", "No reviews found on this page. Possibly reached the end.",
               "Reached maximum number of pages", "Reached the last page of reviews." }

\* the StopReason of the error string of get_review_page_content
ReasonOfError(e) ==
  IF e = ErrDenied THEN "Blocked"
  ELSE IF e = ErrNoReviews THEN "NoReviewsOnProduct"
  ELSE IF e = ErrNotFound THEN "PageNotFound"
  ELSE "FetchError"

\* QuitsInFetch that forgets should_close_driver
QuitsInFetchAlways(driver_given, how) ==
  IF how \in {"ok", "exception"} THEN 1 ELSE 0

\* lines 98-105: get_review_page_content quits the driver only when it made
\* it itself, and then only on the success and the exception path
QuitsInFetch(driver_given, how) ==
  IF ~driver_given /\ how \in {"ok", "exception"} THEN 1 ELSE 0

\* what may happen inside get_review_page_content
FetchEvents == {"setup_driver raises", "driver.get raises", "page_source raises", "page"}

\* get_review_page_content that returns the page source along with the error
get_review_page_contentKeepsSource(driver_given, event, h) ==
  [ content |-> IF event = "page" THEN h ELSE [none |-> TRUE],
    error |-> IF event = "page" THEN PageError(h) ELSE ErrAccess,
    raised |-> FALSE,
    created |-> IF ~driver_given /\ event # "setup_driver raises" THEN 1 ELSE 0,
    quits |-> IF event = "setup_driver raises" THEN 0
              ELSE IF event # "page" THEN QuitsInFetch(driver_given, "exception")
              ELSE QuitsInFetch(driver_given, IF PageError(h) = None THEN "ok" ELSE "terminal") ]

\* lines 66-106: the pair returned, whether an exception leaves the function,
\* and the drivers created and quit; an exception of setup_driver (line 72),
\* driver.get (line 77) or driver.page_source (line 84) is caught at line 103
get_review_page_content(driver_given, event, h) ==
  [ content |-> IF event = "page" /\ PageError(h) = None THEN h ELSE [none |-> TRUE],
    error |-> IF event = "page" THEN PageError(h) ELSE ErrAccess,
    raised |-> FALSE,
    created |-> IF ~driver_given /\ event # "setup_driver raises" THEN 1 ELSE 0,
    quits |-> IF event = "setup_driver raises" THEN 0
              ELSE IF event # "page" THEN QuitsInFetch(driver_given, "exception")
              ELSE QuitsInFetch(driver_given, IF PageError(h) = None THEN "ok" ELSE "terminal") ]

\* StopCheck with ">" for ">=" in the max_pages test of line 553
StopCheckOffByOne(n_reviews, cur_page, first_page, limit, has_next) ==
  IF n_reviews = 0 /\ cur_page > first_page THEN "EmptyPage"
  ELSE IF Truthy(limit) /\ (cur_page - first_page + 1) > limit THEN "MaxPagesReached"
  ELSE IF ~has_next THEN "NoNextPage"
  ELSE ""

\* StopCheck with the max_pages test moved before the empty-page test
StopCheckMaxFirst(n_reviews, cur_page, first_page, limit, has_next) ==
  IF Truthy(limit) /\ (cur_page - first_page + 1) >= limit THEN "MaxPagesReached"
  ELSE IF n_reviews = 0 /\ cur_page > first_page THEN "EmptyPage"
  ELSE IF ~has_next THEN "NoNextPage"
  ELSE ""

\* lines 546-563: the stop conditions after a segmented page, in the order
\* of the code; "" when none holds
StopCheck(n_reviews, cur_page, first_page, limit, has_next) ==
  IF n_reviews = 0 /\ cur_page > first_page THEN "EmptyPage"
  ELSE IF Truthy(limit) /\ (cur_page - first_page + 1) >= limit THEN "MaxPagesReached"
  ELSE IF ~has_next THEN "NoNextPage"
  ELSE ""

\* the message of each stop condition (lines 549, 555, 562)
StopMessage(reason, limit) ==
  IF reason = "EmptyPage" THEN <<"No reviews found on this page. Possibly reached the end.">>
  ELSE IF reason = "MaxPagesReached" THEN <<"Reached maximum number of pages", limit>>
  ELSE <<"Reached the last page of reviews.">>

\* lines 577-583: the rows of the returned DataFrame
ResultFrame(reviews) == IF reviews # << >> THEN reviews ELSE << >>

Init ==
  /\ start_url \in StartUrls
  /\ max_pages \in {NoLimit} \cup (0..MaxPagesArg)
  /\ start_page \in 1..MaxStartPage
  /\ progress_callback \in {None, "callback"}
  /\ pc = "start"
  /\ current_url = NoUrl
  /\ current_page = 0
  /\ all_reviews = << >>
  /\ html_content = NoPage
  /\ error = None
  /\ page_reviews = << >>
  /\ driver = "none"
  /\ quits = 0
  /\ raising = FALSE
  /\ fetches = << >>
  /\ messages = << >>
  /\ stop_reason = ""
  /\ outcome = "running"
  /\ returned = << >>
  /\ cancel_requested = FALSE
  /\ unit = NoCall

\* lines 485-489: not a Flipkart URL
StartInvalidUrl ==
  /\ pc = "start"
  /\ ~ContainsFlipkart(start_url)
  /\ messages' = Say(messages, progress_callback, <<"Error: Not a Flipkart URL">>)
  /\ stop_reason' = "ValidationError"
  /\ returned' = << >>
  /\ outcome' = "returned"
  /\ pc' = "done"
  /\ UNCHANGED << inputs, unit, current_url, current_page, all_reviews, html_content, error,
                  page_reviews, driver, quits, raising, fetches, cancel_requested >>

\* lines 491-501: a product URL that cannot be converted
StartConvertFails ==
  /\ pc = "start"
  /\ ContainsFlipkart(start_url)
  /\ ~ContainsProductReviews(start_url)
  /\ convert_to_review_url(start_url) = NoUrl
  /\ messages' = Say(messages, progress_callback,
                     <<"Error: Could not convert product URL to review URL">>)
  /\ stop_reason' = "ConversionError"
  /\ returned' = << >>
  /\ outcome' = "returned"
  /\ pc' = "done"
  /\ UNCHANGED << inputs, unit, current_url, current_page, all_reviews, html_content, error,
                  page_reviews, driver, quits, raising, fetches, cancel_requested >>

\* the review URL the crawl starts from (lines 491-497), NoUrl when there is none
ReviewUrlOf(url) ==
  IF ContainsProductReviews(url) THEN url ELSE convert_to_review_url(url)

\* lines 491-497: the message of a successful conversion
ConvertMessages(log, callback, url) ==
  IF ContainsProductReviews(url) THEN log
  ELSE Say(log, callback, <<"Converting to review URL">>)

\* lines 485-519: valid URL; setup_driver returns a driver
StartCrawl ==
  /\ pc = "start"
  /\ ContainsFlipkart(start_url)
  /\ ReviewUrlOf(start_url) # NoUrl
  /\ messages' = ConvertMessages(messages, progress_callback, start_url)
  /\ \E review_url \in {ReviewUrlOf(start_url)} :
       current_url' = WithStartPage(review_url, start_page)
  /\ current_page' = start_page
  /\ driver' = "open"
  /\ pc' = "loop_top"
  /\ UNCHANGED << inputs, unit, all_reviews, html_content, error, page_reviews, quits,
                  raising, fetches, stop_reason, outcome, returned, cancel_requested >>

\* line 519: setup_driver raises (no browser); the exception leaves the function
SetupDriverRaises ==
  /\ pc = "start"
  /\ ContainsFlipkart(start_url)
  /\ ReviewUrlOf(start_url) # NoUrl
  /\ messages' = ConvertMessages(messages, progress_callback, start_url)
  /\ outcome' = "raised"
  /\ pc' = "done"
  /\ UNCHANGED << inputs, unit, current_url, current_page, all_reviews, html_content, error,
                  page_reviews, driver, quits, raising, fetches, stop_reason, returned,
                  cancel_requested >>

\* lines 524-528 and 66-106: driver.get raises (always so for the URL None);
\* get_review_page_content turns the exception into an error string
FetchRaises ==
  /\ pc = "loop_top"
  /\ Len(fetches) < MaxFetches
  /\ messages' = Say(messages, progress_callback, <<"Scraping page", current_page>>)
  /\ fetches' = Append(fetches, [url |-> current_url, raised |-> TRUE, page |-> NoPage, error |-> ErrAccess])
  /\ html_content' = NoPage
  /\ error' = ErrAccess
  /\ quits' = quits + QuitsInFetch(driver = "open", "exception")
  /\ pc' = "fetched"
  /\ UNCHANGED << inputs, unit, current_url, current_page, all_reviews, page_reviews, driver,
                  raising, stop_reason, outcome, returned, cancel_requested >>

\* FetchPage that does not look for the markers on the first page of a crawl
FetchPageSkipsFirst(h) ==
  LET e == IF fetches = << >> THEN None ELSE PageError(h)
  IN  /\ pc = "loop_top"
      /\ Len(fetches) < MaxFetches
      /\ current_url # NoUrl
      /\ messages' = Say(messages, progress_callback, <<"Scraping page", current_page>>)
      /\ fetches' = Append(fetches, [url |-> current_url, raised |-> FALSE, page |-> h,
                                     error |-> e])
      /\ error' = e
      /\ html_content' = IF e = None THEN h ELSE NoPage
      /\ quits' = quits + QuitsInFetch(driver = "open", IF e = None THEN "ok" ELSE "terminal")
      /\ pc' = "fetched"
      /\ UNCHANGED << inputs, unit, current_url, current_page, all_reviews, page_reviews, driver,
                      raising, stop_reason, outcome, returned, cancel_requested >>

\* lines 524-528 and 66-102: the site answers with page h
FetchPage(h) ==
  /\ pc = "loop_top"
  /\ Len(fetches) < MaxFetches
  /\ current_url # NoUrl
  /\ messages' = Say(messages, progress_callback, <<"Scraping page", current_page>>)
  /\ fetches' = Append(fetches, [url |-> current_url, raised |-> FALSE, page |-> h, error |-> PageError(h)])
  /\ error' = PageError(h)
  /\ html_content' = IF PageError(h) = None THEN h ELSE NoPage
  /\ quits' = quits + QuitsInFetch(driver = "open",
                                   IF PageError(h) = None THEN "ok" ELSE "terminal")
  /\ pc' = "fetched"
  /\ UNCHANGED << inputs, unit, current_url, current_page, all_reviews, page_reviews, driver,
                  raising, stop_reason, outcome, returned, cancel_requested >>

\* StopOnError that throws the accumulated records away, as the early
\* returns of lines 489 and 501 do
StopOnErrorDiscards ==
  /\ pc = "fetched"
  /\ error # None
  /\ messages' = Say(messages, progress_callback, <<"Stopped", error>>)
  /\ stop_reason' = ReasonOfError(error)
  /\ all_reviews' = << >>
  /\ pc' = "finally"
  /\ UNCHANGED << inputs, unit, current_url, current_page, html_content, error,
                  page_reviews, driver, quits, raising, fetches, outcome, returned,
                  cancel_requested >>

\* lines 530-534: an error stops the loop
StopOnError ==
  /\ pc = "fetched"
  /\ error # None
  /\ messages' = Say(messages, progress_callback, <<"Stopped", error>>)
  /\ stop_reason' = ReasonOfError(error)
  /\ pc' = "finally"
  /\ UNCHANGED << inputs, unit, current_url, current_page, all_reviews, html_content, error,
                  page_reviews, driver, quits, raising, fetches, outcome, returned,
                  cancel_requested >>

\* lines 536-544: the page is segmented and its records are appended
Segment ==
  /\ pc = "fetched"
  /\ error = None
  /\ page_reviews' = extract_reviews_from_page(html_content)
  /\ all_reviews' = all_reviews \o page_reviews'
  /\ messages' = Say(Say(messages, progress_callback, <<"Analyzing page structure...">>),
                     progress_callback,
                     <<"Found", Len(page_reviews'), current_page, Len(all_reviews')>>)
  /\ pc' = "checks"
  /\ UNCHANGED << inputs, unit, current_url, current_page, html_content, error, driver, quits,
                  raising, fetches, stop_reason, outcome, returned, cancel_requested >>

\* StopNow for a loop whose break statements are inside "if progress_callback:"
StopNowNeedsCallback ==
  IF progress_callback = None THEN ""
  ELSE StopCheck(Len(page_reviews), current_page, start_page, max_pages,
                 check_has_next_page(html_content))

\* the stop condition that holds at line 546, "" when none does
StopNow ==
  StopCheck(Len(page_reviews), current_page, start_page, max_pages,
            check_has_next_page(html_content))

\* lines 546-563: a stop condition holds
StopOnCheck ==
  /\ pc = "checks"
  /\ StopNow # ""
  /\ messages' = Say(messages, progress_callback, StopMessage(StopNow, max_pages))
  /\ stop_reason' = StopNow
  /\ pc' = "finally"
  /\ UNCHANGED << inputs, unit, current_url, current_page, all_reviews, html_content, error,
                  page_reviews, driver, quits, raising, fetches, outcome, returned,
                  cancel_requested >>

\* lines 565-571: no stop condition holds; the next URL, whatever it is,
\* becomes current_url and the page counter goes up
Advance ==
  /\ pc = "checks"
  /\ StopNow = ""
  /\ current_url' = get_next_page_url(current_url, html_content, current_page)
  /\ current_page' = current_page + 1
  /\ pc' = "loop_top"
  /\ UNCHANGED << inputs, unit, all_reviews, html_content, error, page_reviews, driver, quits,
                  raising, fetches, messages, stop_reason, outcome, returned,
                  cancel_requested >>

\* lines 521-572: an exception raised inside the try block (by the callback,
\* by time.sleep, by an interrupt) goes to the finally clause
ExceptionInLoop ==
  /\ pc \in {"loop_top", "fetched", "checks"}
  /\ raising' = TRUE
  /\ pc' = "finally"
  /\ UNCHANGED << inputs, unit, current_url, current_page, all_reviews, html_content, error,
                  page_reviews, driver, quits, fetches, messages, stop_reason, outcome,
                  returned, cancel_requested >>

\* lines 572-583: the driver is quit; then the exception goes on to the
\* caller, or the DataFrame is returned
Finally ==
  /\ pc = "finally"
  /\ driver' = "quit"
  /\ quits' = quits + 1
  /\ outcome' = IF raising THEN "raised" ELSE "returned"
  /\ returned' = IF raising THEN << >> ELSE ResultFrame(all_reviews)
  /\ pc' = "done"
  /\ UNCHANGED << inputs, unit, current_url, current_page, all_reviews, html_content, error,
                  page_reviews, raising, fetches, messages, stop_reason, cancel_requested >>

\* the caller asks the running crawl to stop; line 467: the function takes
\* no argument through which it could learn of it
RequestCancel ==
  /\ pc \notin {"start", "done"}
  /\ ~cancel_requested
  /\ cancel_requested' = TRUE
  /\ UNCHANGED << inputs, unit, pc, current_url, current_page, all_reviews, html_content,
                  error, page_reviews, driver, quits, raising, fetches, messages,
                  stop_reason, outcome, returned >>

Next ==
  \/ StartInvalidUrl
  \/ StartConvertFails
  \/ StartCrawl
  \/ SetupDriverRaises
  \/ FetchRaises
  \/ \E h \in Pages : FetchPage(h)
  \/ StopOnError
  \/ Segment
  \/ StopOnCheck
  \/ Advance
  \/ ExceptionInLoop
  \/ Finally
  \/ RequestCancel

Spec == Init /\ [][Next]_vars

\* the steps the function takes by itself: the single thread of lines
\* 467-583 goes on as long as a statement is left to execute; exceptions
\* and the caller's wish to stop come from outside and need not happen,
\* except that driver.get(None) always raises
CrawlStep ==
  \/ StartInvalidUrl
  \/ StartConvertFails
  \/ StartCrawl
  \/ \E h \in Pages : FetchPage(h)
  \/ current_url = NoUrl /\ FetchRaises
  \/ StopOnError
  \/ Segment
  \/ StopOnCheck
  \/ Advance
  \/ Finally

\* the crawl under weak fairness of its own steps: a statement that can be
\* executed is executed
SpecLive == Spec /\ WF_vars(CrawlStep)

(* ------------------- the page functions, called on their own ----------- *)
MaxCurrentPage == 3

\* how the text of a container may begin
Leads ==
  { <<>>,
    <<"5">>,
    <<"3">>,
    <<"0">>,
    <<"9">>,
    <<"sup2">>,
    <<" ", "4">>,
    <<"\n", "5">>,
    <<"x">> }

\* what may follow: a title of the vocabulary or other words
Middles ==
  { <<>>,
    <<"G", "o", "o", "d">>,
    <<"V", "e", "r", "y", " ", "G", "o", "o", "d">>,
    <<"P", "r", "e", "t", "t", "y", " ", "g", "o", "o", "d">>,
    <<"G", "o", "o", "d", " ", "a", "n", "d", " ", "A", "m", "a", "z", "i", "n", "g">>,
    <<"F", "a", "i", "r", " ", "e", "n", "o", "u", "g", "h">>,
    <<"W", "o", "r", "t", "h", " ", "t", "h", "e", " ", "m", "o", "n", "e", "y">>,
    <<" ", "n", "i", "c", "e">>,
    <<"2", " ", "s", "t", "a", "r", "s">>,
    <<"N", "o", "t", " ", "G", "o", "o", "d">> }

\* how the text may end
Tails ==
  { <<>>,
    <<" ", "p", "h", "o", "n", "e", "R", "E", "A", "D", " ", "M", "O", "R", "E">>,
    <<"R", "E", "A", "D", " ", "M", "O", "R", "E", "A", "n", "i", "l", " ", "K", "u", "m", "a", "r", "C", "e", "r", "t", "i", "f", "i", "e", "d", " ", "B", "u", "y", "e", "r">>,
    <<"\n", "l", "i", "n", "e", " ", "t", "w", "o">>,
    <<" ", "o", "k", " ", "c", "e", "r", "t", "i", "f", "i", "e", "d", " ", "B", "U", "Y", "E", "R">>,
    <<"\n", "s", "e", "c", "o", "n", "d", "\n", "C", "E", "R", "T", "I", "F", "I", "E", "D", " ", "B", "U", "Y", "E", "R">>,
    <<" ", "C", "e", "r", "t", "i", "f", "i", "e", "d", " ", "B", "u", "y", "e", "r">> }

\* n characters of filling
Pad(n) == [k \in 1..n |-> "x"]

\* texts around the BodyBudget of a loose container
LongTexts ==
  { l \o Pad(n) \o s_Certified_Buyer :
      l \in {<< >>, <<"4">>},
      n \in {BodyBudget - 17, BodyBudget - 16, BodyBudget - 15, BodyBudget - 14, 2 * BodyBudget} }
  \cup { s_Certified_Buyer \o Pad(BodyBudget) }

ElementTexts == { l \o m \o t : l \in Leads, m \in Middles, t \in Tails } \cup LongTexts

\* a page with one div.EKFha- element, or with one loose container only,
\* and pages with several containers of both kinds
ExtractPages ==
  { BarePage(<<t>>, <<F1>>, << >>, NoLink) : t \in ElementTexts }
  \cup { BarePage(<< >>, <<t>>, << >>, NoLink) : t \in ElementTexts }
  \cup { BarePage(elems, loose, << >>, NoLink) :
           elems \in {<< >>, <<F1, F2>>, <<F2, F1, F2>>, <<F3, F2, F1>>},
           loose \in {<< >>, <<F3, F1>>, <<F2, F3, F2, F1>>, <<F2>>} }

\* the URLs of a crawl under way
CurrentUrls ==
  { Url(s_www_flipkart_com, "product-reviews", "itm1", <<Param("page", <<"2">>), Param("x", <<"1">>)>>),
    Url(s_www_flipkart_com, "product-reviews", "itm1", <<Param("pid", s_ABC1)>>),
    Url(s_www_flipkart_com, "product-reviews", "itm1", << >>),
    Url(s_www_flipkart_com, "product-reviews", "itm1",
        <<Param("pid", s_ABC1), Param("page", <<"2">>), Param("sort", << >>)>>),
    Url(s_www_flipkart_com, "product-reviews", "itm1",
        <<Param("x", <<"1">>), Param("page", <<"1">>), Param("y", <<"2">>), Param("x", <<"3">>)>>),
    Url(s_flipkart_com, "product-reviews", "",
        <<Param("pid", s_ABC1), Param("lid", s_L1), Param("page", <<"1">>)>>) }

\* the pager of a page: "Page X of Y" text or none, a "Next" link or none
PagerPages ==
  { BarePage(<<F1>>, << >>, pot, lnk) :
      pot \in {<< >>, <<1, 2>>, <<2, 2>>, <<3, 4>>},
      lnk \in {NoLink, Link(TRUE, RevUrl(2))} }
  \cup { WithPageWords(BarePage(<<F1>>, << >>, pot, NoLink)) : pot \in {<< >>, <<2, 2>>} }

\* the signals check_has_next_page looks at, in all combinations; a marker
\* in a div is also the first marker in the text
SignalPages ==
  { Page(FALSE, FALSE, FALSE, <<F1>>, << >>, pod, IF pod # << >> THEN pod ELSE pot, IF btn = 0 THEN NoLink ELSE Link(TRUE, RevUrl(2)), btn = 2, txt, NoLink, nav) :
      pod \in {<< >>, <<1, 2>>, <<2, 2>>}, pot \in {<< >>, <<1, 3>>, <<3, 3>>},
      btn \in 0..2, txt \in BOOLEAN, nav \in 0..2 }

HasNextPages ==
  SignalPages \cup { WithPager(page) : page \in SignalPages }
    \cup { BarePage(<< >>, << >>, << >>, NoLink) }

UnitInit ==
  /\ start_url = NoUrl
  /\ max_pages = NoLimit
  /\ start_page = 1
  /\ progress_callback = None
  /\ pc = "unit"
  /\ current_url = NoUrl
  /\ current_page = 0
  /\ all_reviews = << >>
  /\ html_content = NoPage
  /\ error = None
  /\ page_reviews = << >>
  /\ driver = "none"
  /\ quits = 0
  /\ raising = FALSE
  /\ fetches = << >>
  /\ messages = << >>
  /\ stop_reason = ""
  /\ outcome = "running"
  /\ returned = << >>
  /\ cancel_requested = FALSE
  /\ \/ \E page \in ExtractPages :
          unit = [NoCall EXCEPT !.fn = "extract_reviews_from_page", !.html_content = page]
     \/ \E url \in CurrentUrls, page \in PagerPages, n \in 1..MaxCurrentPage :
          unit = [NoCall EXCEPT !.fn = "get_next_page_url", !.html_content = page,
                                !.current_url = url, !.current_page = n]
     \/ \E page \in HasNextPages :
          unit = [NoCall EXCEPT !.fn = "check_has_next_page", !.html_content = page]
     \/ \E given \in BOOLEAN, event \in FetchEvents, page \in Pages :
          /\ given => event # "setup_driver raises"
          /\ unit = [NoCall EXCEPT !.fn = "get_review_page_content", !.html_content = page,
                                   !.driver_given = given, !.event = event]

\* "unchanged" for every variable of the crawl
crawl_vars == << pc, current_url, current_page, all_reviews, html_content, error, page_reviews, driver, quits, raising, fetches, messages, stop_reason, outcome, returned, cancel_requested >>

\* lines 108-296, called on unit.html_content
CallExtract ==
  /\ unit.fn = "extract_reviews_from_page"
  /\ ~unit.done
  /\ unit' = [unit EXCEPT !.done = TRUE,
                          !.reviews_data = extract_reviews_from_page(unit.html_content)]
  /\ UNCHANGED << inputs, crawl_vars >>

\* lines 366-427, called on unit.current_url, unit.html_content, unit.current_page
CallNextPageUrl ==
  /\ unit.fn = "get_next_page_url"
  /\ ~unit.done
  /\ unit' = [unit EXCEPT !.done = TRUE,
                          !.next_url = get_next_page_url(unit.current_url, unit.html_content,
                                                         unit.current_page)]
  /\ UNCHANGED << inputs, crawl_vars >>

\* lines 298-364, called on unit.html_content
CallHasNextPage ==
  /\ unit.fn = "check_has_next_page"
  /\ ~unit.done
  /\ unit' = [unit EXCEPT !.done = TRUE, !.has_next = check_has_next_page(unit.html_content)]
  /\ UNCHANGED << inputs, crawl_vars >>

\* lines 66-106, called with a driver or without one; the site answers with
\* unit.html_content unless unit.event is an exception
CallGetContent ==
  /\ unit.fn = "get_review_page_content"
  /\ ~unit.done
  /\ unit' = [unit EXCEPT !.done = TRUE,
                          !.result = get_review_page_content(unit.driver_given, unit.event,
                                                             unit.html_content)]
  /\ UNCHANGED << inputs, crawl_vars >>

UnitNext ==
  \/ CallExtract
  \/ CallNextPageUrl
  \/ CallHasNextPage
  \/ CallGetContent

SpecUnit == UnitInit /\ [][UnitNext]_vars

(* ------------------------------ properties ----------------------------- *)
\* a page with one of the markers of a blocked, review-less or missing page
IsTerminalPage(page) == page.access_denied \/ page.be_the_first \/ page.page_not_found

\* the site answered fetch f with a page that is not a terminal page
OkFetch(f) == ~f.raised /\ ~IsTerminalPage(f.page)

\* the site answered fetch f with a terminal page
TerminalFetch(f) == ~f.raised /\ IsTerminalPage(f.page)

\* the records of the normal pages among the first k fetches, in page order
RECURSIVE RecordsUpTo(_)
RecordsUpTo(k) ==
  IF k = 0 THEN << >>
  ELSE RecordsUpTo(k - 1) \o
       (IF OkFetch(fetches[k]) THEN extract_reviews_from_page(fetches[k].page) ELSE << >>)

\* fetch f gave a normal page with at least one record and a next page
GoodFetch(f) ==
  /\ OkFetch(f)
  /\ extract_reviews_from_page(f.page) # << >>
  /\ check_has_next_page(f.page)

Returned == pc = "done" /\ outcome = "returned"

\* C1: with max_pages = N >= 1, a crawl whose first N pages are fetched
\* without error, each with at least one record and a next page, fetches
\* exactly N pages, returns the records of these N pages in page order and
\* stops at the "maximum number of pages" break.
C1_MaxPagesExact ==
  ( /\ Returned
    /\ max_pages >= 1
    /\ fetches # << >>
    /\ \A i \in 1..Min(max_pages, Len(fetches)) : GoodFetch(fetches[i]) )
  => /\ Len(fetches) = max_pages
     /\ returned = RecordsUpTo(max_pages)
     /\ stop_reason = "MaxPagesReached"

\* C1 happens: max_pages = 2, two pages of 3 records each, 6 records returned
C1_Witness ==
  /\ Returned
  /\ max_pages = 2
  /\ Len(fetches) = 2
  /\ \A i \in 1..2 : GoodFetch(fetches[i]) /\ Len(fetches[i].page.review_elements) = 3
  /\ Len(returned) = 6
  /\ stop_reason = "MaxPagesReached"

\* the StopReason of a terminal page, read off its markers
TerminalReason(page) ==
  IF page.access_denied THEN "Blocked"
  ELSE IF page.be_the_first THEN "NoReviewsOnProduct"
  ELSE "PageNotFound"

\* C2: a terminal page (blocked, no reviews, not found) is the last page
\* fetched; it is never segmented; the crawl stops with the reason of the
\* page and the records are those of the pages before it.
C2_TerminalPageStops ==
  \A i \in 1..Len(fetches) :
    TerminalFetch(fetches[i]) =>
      /\ i = Len(fetches)
      /\ pc \in {"fetched", "finally", "done"}
      /\ all_reviews = RecordsUpTo(i - 1)
      /\ (pc \in {"finally", "done"} /\ ~raising)
           => stop_reason = TerminalReason(fetches[i].page)
      /\ Returned => returned = RecordsUpTo(i - 1)

\* C2 happens: page 2 is "not found" after a page with records
C2_Witness ==
  /\ Returned
  /\ Len(fetches) = 2
  /\ TerminalFetch(fetches[2])
  /\ stop_reason = "PageNotFound"
  /\ returned # << >>
  /\ returned = extract_reviews_from_page(fetches[1].page)

\* C3: a fetch that raises is the last fetch; the crawl stops with a fetch
\* error and returns the records of the pages before it.
C3_FetchErrorKeepsRecords ==
  \A i \in 1..Len(fetches) :
    fetches[i].raised =>
      /\ i = Len(fetches)
      /\ pc \in {"fetched", "finally", "done"}
      /\ all_reviews = RecordsUpTo(i - 1)
      /\ (pc \in {"finally", "done"} /\ ~raising) => stop_reason = "FetchError"
      /\ Returned => returned = RecordsUpTo(i - 1)

\* C3 happens: the fetch of page 3 raises after two pages with records
C3_Witness ==
  /\ Returned
  /\ Len(fetches) = 3
  /\ fetches[3].raised
  /\ fetches[3].url # NoUrl
  /\ OkFetch(fetches[1]) /\ OkFetch(fetches[2])
  /\ stop_reason = "FetchError"
  /\ Len(returned) >= 2

\* the number of stop messages handed to the callback
NStopMessages == Cardinality({ i \in DOMAIN messages : messages[i][1] \in StopKinds })

\* C4: whenever scrape_flipkart_reviews returns, a stop reason has reached
\* the caller (the callback is the only way a reason can reach it).
C4_ReasonReachesCaller == Returned => NStopMessages >= 1

\* C5: a crawl that has returned has reported exactly one stop message, and
\* a crawl that is still running has reported none.
C5_ExactlyOneStopMessage ==
  /\ Returned => NStopMessages = 1
  /\ pc \notin {"finally", "done"} => NStopMessages = 0

\* the stop condition that applies after the last fetch, from the log
ExpectedStop ==
  LET last == fetches[Len(fetches)]
      n == Len(extract_reviews_from_page(last.page))
  IN  IF n = 0 /\ Len(fetches) > 1 THEN "EmptyPage"
      ELSE IF max_pages >= 1 /\ Len(fetches) >= max_pages THEN "MaxPagesReached"
      ELSE IF ~check_has_next_page(last.page) THEN "NoNextPage"
      ELSE "continue"

\* C6: after a segmented page the crawl stops at the first condition that
\* holds, in the order EmptyPage (no record, not the first page),
\* MaxPagesReached, NoNextPage; it goes on only when none holds.
C6_StopOrder ==
  (fetches # << >> /\ OkFetch(fetches[Len(fetches)])) =>
     /\ (pc \in {"finally", "done"} /\ ~raising) => stop_reason = ExpectedStop
     /\ pc = "loop_top" => ExpectedStop = "continue"

\* C6 happens: a page without records that is also the max_pages-th page
\* is reported as EmptyPage
C6_Witness ==
  /\ Returned
  /\ Len(fetches) = 2
  /\ max_pages = 2
  /\ OkFetch(fetches[2])
  /\ extract_reviews_from_page(fetches[2].page) = << >>
  /\ stop_reason = "EmptyPage"

\* C6 happens: a first page without records does not stop as EmptyPage
C6_WitnessFirstPage ==
  /\ Len(fetches) = 1
  /\ OkFetch(fetches[1])
  /\ extract_reviews_from_page(fetches[1].page) = << >>
  /\ pc = "loop_top"

\* C7: the loop never goes on without a next URL: no iteration starts, and
\* no fetch is made, with the URL None.
C7_NoFetchWithoutUrl ==
  /\ pc = "loop_top" => current_url # NoUrl
  /\ \A i \in 1..Len(fetches) : fetches[i].url # NoUrl

\* C8: once the caller has asked the crawl to stop, an iteration boundary
\* is not followed by another fetch.
C8_CancelStopsBeforeNextFetch ==
  [][(cancel_requested /\ pc = "loop_top") => Len(fetches') = Len(fetches)]_vars

\* C9: the driver made by setup_driver is quit exactly once, when the
\* function is left, on every path; there is no step of the loop (so no
\* fetch) after the quit.
C9_DriverQuitOnce ==
  /\ driver = "none" => quits = 0
  /\ driver = "open" => quits = 0 /\ pc # "done"
  /\ driver = "quit" => quits = 1 /\ pc = "done"

\* C9 happens: the loop is left by an exception after a fetch
C9_Witness ==
  /\ pc = "done"
  /\ outcome = "raised"
  /\ raising
  /\ Len(fetches) >= 1
  /\ driver = "quit"
  /\ quits = 1

\* the URL is one of the target site
OnTargetSite(url) == url.host = s_www_flipkart_com

\* C10: a start_url that does not belong to the target site ends the call
\* at once: no driver, no fetch, no record, a validation error.
C10_InvalidUrlStops ==
  ~OnTargetSite(start_url) =>
     /\ driver = "none"
     /\ fetches = << >>
     /\ all_reviews = << >>
     /\ pc \in {"start", "done"}
     /\ pc = "done" => (outcome = "returned" /\ returned = << >>
                        /\ stop_reason = "ValidationError")

\* the value of the first parameter named n of a URL, << >> when absent
FirstValue(url, n) ==
  LET hits == { k \in 1..Len(url.query) : url.query[k].name = n }
  IN  IF hits = {} THEN << >>
      ELSE url.query[CHOOSE k \in hits : \A m \in hits : k <= m].value

\* start_url is a page of the site that is not a review feed
IsProductUrl(url) == ContainsFlipkart(url) /\ url.path # "product-reviews"

NotPageParam(prm) == prm.name # "page"
OtherParams(q) == SelectSeq(q, NotPageParam)

\* the values of the page parameters of a query
IsPageParam(prm) == prm.name = "page"
PageValues(q) == [k \in 1..Len(SelectSeq(q, IsPageParam)) |-> SelectSeq(q, IsPageParam)[k].value]

\* C12: with start_page > 1 the first URL fetched has the one page
\* parameter start_page and every other parameter of the starting URL; with
\* start_page = 1 it is the starting URL itself.
C12_StartPageInjected ==
  (fetches # << >> /\ start_url.path = "product-reviews") =>
     IF start_page > 1
       THEN /\ PageValues(fetches[1].url.query) = <<StrOfNat(start_page)>>
            /\ OtherParams(fetches[1].url.query) = OtherParams(start_url.query)
            /\ fetches[1].url.host = start_url.host
            /\ fetches[1].url.item = start_url.item
       ELSE fetches[1].url = start_url

\* what the markers of a page say, in the order blocked, no reviews, not found
ExpectedClass(page) ==
  IF page.access_denied THEN ErrDenied
  ELSE IF page.be_the_first THEN ErrNoReviews
  ELSE IF page.page_not_found THEN ErrNotFound
  ELSE None

\* C13: the classification of a loaded page goes by the first marker found
\* in the order blocked, no reviews, not found; a page without marker is
\* a normal page.
C13_ClassificationPriority ==
  \A i \in 1..Len(fetches) :
    ~fetches[i].raised => fetches[i].error = ExpectedClass(fetches[i].page)

\* C13 happens: a page with all three markers is classified as blocked
C13_Witness ==
  /\ fetches # << >>
  /\ ~fetches[Len(fetches)].raised
  /\ fetches[Len(fetches)].page.access_denied
  /\ fetches[Len(fetches)].page.be_the_first
  /\ fetches[Len(fetches)].page.page_not_found
  /\ stop_reason = "Blocked"

ExtractDone == unit.fn = "extract_reviews_from_page" /\ unit.done
PrimaryDone == ExtractDone /\ unit.html_content.review_elements # << >>
FallbackDone == ExtractDone /\ unit.html_content.review_elements = << >>

\* the loose containers that hold "Certified Buyer", in document order
RECURSIVE CertifiedOf(_)
CertifiedOf(loose) ==
  IF loose = << >> THEN << >>
  ELSE IF Contains(Head(loose), s_Certified_Buyer)
    THEN <<Head(loose)>> \o CertifiedOf(Tail(loose))
  ELSE CertifiedOf(Tail(loose))

\* the fragments of the page: its div.EKFha- elements or, without any, its
\* loose containers with "Certified Buyer"
FragmentsOf(page) ==
  IF page.review_elements # << >> THEN page.review_elements
  ELSE CertifiedOf(page.cPHDOP_elements)

\* the fragments of the page of the call
Fragments == FragmentsOf(unit.html_content)

\* the vocabulary entries that are a prefix of text after its first character
WordsAtPrefix(text) == { k \in 1..Len(title_words) : StartsWithAt(text, 2, title_words[k]) }
LongestAtPrefix(text) ==
  title_words[CHOOSE k \in WordsAtPrefix(text) :
                \A m \in WordsAtPrefix(text) : Len(title_words[m]) <= Len(title_words[k])]

\* C15: when a vocabulary word is a prefix of the fragment after its rating
\* digit, the title of the record is the longest vocabulary entry at that
\* position, with or without "READ MORE", on one line or several
C15_TitleLongestPrefix ==
  PrimaryDone =>
    /\ Len(unit.reviews_data) = Len(Fragments)
    /\ \A i \in 1..Len(Fragments) :
         (Fragments[i] # << >> /\ IsDigit(Fragments[i][1]) /\ WordsAtPrefix(Fragments[i]) # {})
           => unit.reviews_data[i].title = LongestAtPrefix(Fragments[i])

\* "certified buyer" occurs in text, in any letter case
HasCertifiedBuyerAnyCase(text) ==
  \E i \in 1..Len(text) :
    /\ i + Len(s_certified_buyer) - 1 <= Len(text)
    /\ \A k \in 1..Len(s_certified_buyer) : LowerChar(text[i + k - 1]) = s_certified_buyer[k]

\* C16: in the primary path verified_purchase is true exactly when the
\* fragment contains "certified buyer" in any letter case
C16_VerifiedIffCertified ==
  PrimaryDone =>
    /\ Len(unit.reviews_data) = Len(Fragments)
    /\ \A i \in 1..Len(Fragments) :
         unit.reviews_data[i].verified_purchase = HasCertifiedBuyerAnyCase(Fragments[i])

\* a fragment that has the marker in another case than "Certified Buyer" has
\* been parsed as verified, and one without the marker as not verified
C16_Witness ==
  /\ PrimaryDone
  /\ \E i \in 1..Len(unit.reviews_data) :
       /\ unit.reviews_data[i].verified_purchase
       /\ ~Contains(Fragments[i], s_Certified_Buyer)

C16_WitnessNotVerified ==
  /\ PrimaryDone
  /\ \E i \in 1..Len(unit.reviews_data) :
       /\ ~unit.reviews_data[i].verified_purchase
       /\ Len(Fragments[i]) > Len(s_certified_buyer)

\* the text has no digit as its first character
NoLeadingDigit(text) == text = << >> \/ ~IsDigit(text[1])

C17_WitnessFallback ==
  /\ FallbackDone
  /\ \E i \in 1..Len(unit.reviews_data) :
       /\ NoLeadingDigit(Fragments[i])
       /\ unit.reviews_data[i].rating = "Unknown"

\* C18: every record has a rating of "1".."5" or "Unknown", whatever the
\* first character of the fragment is
C18_RatingInRange ==
  ExtractDone =>
    \A i \in 1..Len(unit.reviews_data) :
      unit.reviews_data[i].rating \in {"1", "2", "3", "4", "5", "Unknown"}

(* -------------------- properties of get_next_page_url ------------------ *)
NextUrlDone == unit.fn = "get_next_page_url" /\ unit.done

\* the page has neither a next button nor a "Next" link with an href
NoNextLink(page) == ~page.next_button.present /\ ~page.next_link.present

\* C19: when the page offers no next link (and names no total page count),
\* the next URL is the current URL with page = current_page + 1 and every
\* other query parameter unchanged in name, value and order
C19_MechanicalNextUrl ==
  (NextUrlDone /\ NoNextLink(unit.html_content) /\ unit.html_content.page_of_text = << >>)
    => /\ unit.next_url # NoUrl
       /\ unit.next_url.host = unit.current_url.host
       /\ unit.next_url.path = unit.current_url.path
       /\ unit.next_url.item = unit.current_url.item
       /\ PageValues(unit.next_url.query) = <<StrOfNat(unit.current_page + 1)>>
       /\ OtherParams(unit.next_url.query) = OtherParams(unit.current_url.query)

(* ------------------- properties of the fallback path ------------------- *)
\* C20: in the fallback path a container text of more than 200 characters
\* gives its first 200 characters and "..." as the text of the record, a
\* text of at most 200 characters gives the whole text, and
\* verified_purchase is TRUE in both cases
C20_FallbackBodyBudget ==
  FallbackDone =>
    /\ Len(unit.reviews_data) = Len(Fragments)
    /\ \A i \in 1..Len(Fragments) :
         /\ unit.reviews_data[i].text =
              IF Len(Fragments[i]) > BodyBudget
                THEN SubSeq(Fragments[i], 1, BodyBudget) \o <<".", ".", ".">>
                ELSE Fragments[i]
         /\ unit.reviews_data[i].verified_purchase = TRUE

\* a text of more than twice the budget has been cut, and one of exactly
\* the budget has been kept whole
C20_Witness ==
  /\ FallbackDone
  /\ \E i \in 1..Len(unit.reviews_data) :
       /\ Len(Fragments[i]) > 2 * BodyBudget
       /\ Len(unit.reviews_data[i].text) = BodyBudget + 3
       /\ unit.reviews_data[i].verified_purchase

C20_WitnessAtBudget ==
  /\ FallbackDone
  /\ \E i \in 1..Len(unit.reviews_data) :
       /\ Len(Fragments[i]) = BodyBudget
       /\ unit.reviews_data[i].text = Fragments[i]

(* ---------------- the two strategies of extract_reviews_from_page ------ *)
\* rec is what the fallback strategy makes of one of the loose containers
FromFallback(rec, page) ==
  \E j \in 1..Len(page.cPHDOP_elements) : rec = FallbackRecord(page.cPHDOP_elements[j])

\* C21: when the page has at least one div.EKFha- element no record comes
\* from the loose containers (the records are those of the div.EKFha-
\* elements and no more), and the records of one page are never of both kinds
C21_FallbackOnlyWithoutPrimary ==
  ExtractDone =>
    /\ unit.html_content.review_elements # << >>
         => /\ Len(unit.reviews_data) <= Len(unit.html_content.review_elements)
            /\ \A i \in 1..Len(unit.reviews_data) :
                 unit.reviews_data[i] = PrimaryRecord(unit.html_content.review_elements[i])
    /\ unit.html_content.review_elements = << >>
         => \A i \in 1..Len(unit.reviews_data) :
              FromFallback(unit.reviews_data[i], unit.html_content)

\* a page with div.EKFha- elements and with loose containers that hold
\* "Certified Buyer" has been read
C21_Witness ==
  /\ ExtractDone
  /\ Len(unit.html_content.review_elements) > 1
  /\ \E j \in 1..Len(unit.html_content.cPHDOP_elements) :
       Contains(unit.html_content.cPHDOP_elements[j], s_Certified_Buyer)
  /\ Len(unit.reviews_data) = Len(unit.html_content.review_elements)

\* record rec belongs to fragment text: same rating, same verification flag
RecordOf(rec, text, primary) ==
  /\ rec.rating = (IF primary THEN RatingOf(Strip(text)) ELSE RatingOf(text))
  /\ rec.verified_purchase = HasCertifiedBuyerAnyCase(text)

C22_WitnessFallback ==
  /\ ExtractDone
  /\ unit.html_content.review_elements = << >>
  /\ Len(unit.html_content.cPHDOP_elements) = 4
  /\ Len(unit.reviews_data) = 2
  /\ unit.reviews_data[1].rating # unit.reviews_data[2].rating

(* -------------------- properties of check_has_next_page ---------------- *)
HasNextDone == unit.fn = "check_has_next_page" /\ unit.done

\* the "Page X of Y" marker of the page, in a div or in any other text
MarkerOf(page) == IF page.page_of_div # << >> THEN page.page_of_div ELSE page.page_of_text

\* a "next" control, or a navigation container with more than one page link
NextControl(page) ==
  \/ page.next_button.present /\ page.next_button_says_next
  \/ page.next_text
  \/ page.pager_current_not_last
  \/ page.nav_links > 1

\* C23: a "Page X of Y" marker decides the answer as X < Y whatever else is
\* on the page; without a marker a "next" control or a navigation container
\* with more than one link gives TRUE; otherwise the answer is FALSE
C23_FirstDefinitiveSignal ==
  HasNextDone =>
    unit.has_next = IF MarkerOf(unit.html_content) # << >>
                      THEN MarkerOf(unit.html_content)[1] < MarkerOf(unit.html_content)[2]
                      ELSE NextControl(unit.html_content)

(* ------------------- the crawl as a function of its inputs ------------- *)
\* the value of current_page at the i-th fetch
PageIndexAt(i) == start_page + i - 1

\* the stop condition after the i-th fetch, "" when the loop goes on; it is
\* made of start_url, max_pages, start_page and the pages fetched only
StopAfter(i) ==
  IF fetches[i].raised THEN "FetchError"
  ELSE IF IsTerminalPage(fetches[i].page) THEN TerminalReason(fetches[i].page)
  ELSE StopCheck(Len(extract_reviews_from_page(fetches[i].page)), PageIndexAt(i), start_page,
                 max_pages, check_has_next_page(fetches[i].page))

\* the URL of the i-th fetch, made of the same
UrlAt(i) ==
  IF i = 1 THEN WithStartPage(ReviewUrlOf(start_url), start_page)
  ELSE get_next_page_url(fetches[i - 1].url, fetches[i - 1].page, PageIndexAt(i - 1))

\* C24: the URLs fetched, the point where the crawl stops and the records
\* returned are determined by start_url, max_pages, start_page and the
\* pages fetched, so they are the same with and without a progress callback
C24_CallbackObservational ==
  /\ \A i \in 1..Len(fetches) :
       /\ fetches[i].url = UrlAt(i)
       /\ i > 1 => StopAfter(i - 1) = ""
  /\ (Returned /\ fetches # << >>)
       => /\ StopAfter(Len(fetches)) # ""
          /\ stop_reason = StopAfter(Len(fetches))
          /\ returned = RecordsUpTo(Len(fetches))

\* a crawl of two pages has returned records, with a callback that was
\* called and without one
C24_Witness ==
  /\ Returned
  /\ progress_callback # None
  /\ messages # << >>
  /\ Len(fetches) >= 2
  /\ returned # << >>

C24_WitnessNoCallback ==
  /\ Returned
  /\ progress_callback = None
  /\ Len(fetches) >= 2
  /\ returned # << >>

(* ------------------ properties of get_review_page_content -------------- *)
GetContentDone == unit.fn = "get_review_page_content" /\ unit.done

\* C25: get_review_page_content does not raise, whatever raises inside it,
\* and of the pair it returns exactly one part is set: the page and no
\* error, or no page and an error
C25_ErrorChannel ==
  GetContentDone =>
    /\ ~unit.result.raised
    /\ \/ unit.result.content # NoPage /\ unit.result.error = None
       \/ unit.result.content = NoPage /\ unit.result.error # None
    /\ unit.event # "page" => unit.result.error = ErrAccess
    /\ (unit.event = "page" /\ ~IsTerminalPage(unit.html_content))
         => unit.result.content = unit.html_content

\* setup_driver has raised in a call without a driver, and the call has
\* returned the error; a terminal page has been answered to another call
C25_Witness ==
  /\ GetContentDone
  /\ unit.event = "setup_driver raises"
  /\ unit.result.error = ErrAccess
  /\ unit.result.content = NoPage

C25_WitnessTerminal ==
  /\ GetContentDone
  /\ unit.event = "page"
  /\ IsTerminalPage(unit.html_content)
  /\ unit.result.error # None
  /\ unit.result.content = NoPage

\* C27: a call without a driver makes one and quits it before it returns,
\* on every exit path
C27_OwnDriverReleased ==
  (GetContentDone /\ ~unit.driver_given) =>
    /\ unit.event # "setup_driver raises" => unit.result.created = 1
    /\ unit.result.quits = unit.result.created

\* C26: without a next link, a page with a "Page X of Y" marker and
\* current_page + 1 > Y gives no URL, and any other page gives the current
\* URL with page = current_page + 1
C26_RefusesPastTotal ==
  (NextUrlDone /\ NoNextLink(unit.html_content)) =>
    IF /\ unit.html_content.page_of_text # << >>
       /\ unit.current_page + 1 > unit.html_content.page_of_text[2]
      THEN unit.next_url = NoUrl
      ELSE /\ unit.next_url # NoUrl
           /\ unit.next_url.host = unit.current_url.host
           /\ unit.next_url.path = unit.current_url.path
           /\ unit.next_url.item = unit.current_url.item
           /\ PageValues(unit.next_url.query) = <<StrOfNat(unit.current_page + 1)>>

(* ----------------------- the URLs a crawl fetches ---------------------- *)
\* a fetch has just been made, of current_url, which is a URL
JustFetched ==
  /\ pc = "fetched"
  /\ fetches # << >>
  /\ fetches[Len(fetches)].url = current_url
  /\ current_url # NoUrl

\* the page that url asks for: its page parameter, page 1 without one
AsksForPage(url, n) ==
  IF PageValues(url.query) = << >> THEN n = 1
  ELSE PageValues(url.query)[1] = StrOfNat(n)

\* C28: at every fetch the page that current_url asks for is the page
\* that current_page counts
C28_UrlPageIsCounter ==
  JustFetched => AsksForPage(current_url, current_page)

\* C29: every URL fetched is a URL of the target site, and every URL after
\* the first is on the host of the URL fetched before it
C29_FetchesStayOnSite ==
  \A i \in 1..Len(fetches) :
    /\ fetches[i].url # NoUrl
    /\ OnTargetSite(fetches[i].url)
    /\ i > 1 => fetches[i].url.host = fetches[i - 1].url.host

(* ------------------------------ termination ---------------------------- *)
\* C30: every crawl leaves its loop, whatever max_pages is and whatever the
\* site answers, and with max_pages = N >= 1 it makes at most N fetches.
\* Every exit of the loop but the page limit depends on what the site
\* answers, so the crawl ends against every site only if a crawl that comes
\* back to the top of its loop has a limit that it has not used up
C30_EveryCrawlTerminates ==
  /\ max_pages >= 1 => Len(fetches) <= max_pages
  /\ (pc = "loop_top" /\ fetches # << >>) => (max_pages >= 1 /\ Len(fetches) < max_pages)
====
